---- MODULE Spec2Model ----
(***************************************************************************)
(* hajimehoshi/oggloop: Read scans an Ogg/Vorbis byte stream for the       *)
(* LOOPSTART / LOOPLENGTH tags of the Vorbis comment header.               *)
(*                                                                         *)
(* The repository holds two versions of Read:                              *)
(*   src/oggloop.go        early-return error handling   (record early)    *)
(*   src/unnamed/part_000  latched-error reader errReader (record latch)   *)
(* Both are run on the same input bytes, one call after the other, each    *)
(* on a fresh reader.  Every call the code makes on the reader is one      *)
(* step.  Bytes are integers 0..255, Go indices are kept 0-based and       *)
(* sequences are 1-based, so Go's segs[i] is segs[i+1] here.               *)
(***************************************************************************)
EXTENDS Integers, Sequences, FiniteSets, TLC

VARIABLES input, src, early, latch

vars == <<input, src, early, latch>>

(***************************************************************************)
(* Program constants.                                                      *)
(***************************************************************************)
CaptureLen == 4
PageHeaderLen == 26
ClassifyLen == 5
LaceMax == 255
CommentType == 3
\* Largest value of Go's int on a 32-bit build (strconv.Atoi reports a range
\* error above it; a 64-bit build does the same above 2^63-1).
IntMax == 2147483647

OggS == <<79, 103, 103, 83>>
Vorb == <<118, 111, 114, 98>>
\* The literal prefixes of the two regular expressions; the capture group
\* ([0-9]+) is modelled by FindSubmatch.
loopStartRe == <<76, 79, 79, 80, 83, 84, 65, 82, 84, 61>>
loopLengthRe == <<76, 79, 79, 80, 76, 69, 78, 71, 84, 72, 61>>

Nil == "nil"
EOF == "EOF"
ErrUnexpectedEOF == "unexpected EOF"
ErrNegative == "should be positive"

(***************************************************************************)
(* Bounds of the model.                                                    *)
(***************************************************************************)
MaxPages == 2

(***************************************************************************)
(* Helpers on byte sequences.                                              *)
(***************************************************************************)
Fill(n, b) == [k \in 1..n |-> b]

Min(S) == CHOOSE x \in S : \A y \in S : x <= y

IsDigit(c) == c >= 48 /\ c <= 57

\* io.ReadFull(src, buf) with len(buf) = n at reader position pos: the bytes
\* delivered (k of them), the buffer (zero beyond what was delivered) and the
\* error: nil when n bytes came, io.EOF when none came, io.ErrUnexpectedEOF
\* when some but fewer than n came.  n = 0 succeeds also at the end.
ReadFull(s, pos, n) ==
  LET avail == Len(s) - pos
      k == IF avail < n THEN avail ELSE n
  IN [n |-> k,
      buf |-> [j \in 1..n |-> IF j <= k THEN s[pos + j] ELSE 0],
      err |-> IF k = n THEN Nil ELSE IF k = 0 THEN EOF ELSE ErrUnexpectedEOF]

\* Mutant of FindSubmatch: the key is looked for at the start of the payload
\* only.
FindSubmatchAnchored(re, meta) ==
  IF Len(meta) > Len(re) /\ SubSeq(meta, 1, Len(re)) = re /\ IsDigit(meta[Len(re) + 1])
    THEN <<meta[Len(re) + 1]>>
  ELSE <<>>

\* Mutant of FindSubmatch: the rightmost match is taken.
FindSubmatchLast(re, meta) ==
  LET n == Len(re)
      hits == {p \in 1..(Len(meta) - n) :
                 SubSeq(meta, p, p + n - 1) = re /\ IsDigit(meta[p + n])}
  IN IF hits = {} THEN <<>>
     ELSE LET d == (CHOOSE x \in hits : \A y \in hits : x >= y) + n
              stop == {q \in d..Len(meta) : ~IsDigit(meta[q])}
              e == IF stop = {} THEN Len(meta) ELSE Min(stop) - 1
          IN SubSeq(meta, d, e)

\* regexp FindSubmatch for KEY([0-9]+): the capture group of the leftmost
\* match, with its maximal digit run; <<>> when there is no match.
FindSubmatch(re, meta) ==
  LET n == Len(re)
      hits == {p \in 1..(Len(meta) - n) :
                 /\ meta[p] = re[1]
                 /\ SubSeq(meta, p, p + n - 1) = re
                 /\ IsDigit(meta[p + n])}
  IN IF hits = {} THEN <<>>
     ELSE LET d == Min(hits) + n
              stop == {q \in d..Len(meta) : ~IsDigit(meta[q])}
              e == IF stop = {} THEN Len(meta) ELSE Min(stop) - 1
          IN SubSeq(meta, d, e)

\* strconv.Atoi on a digit string: the value, or a range error when it does
\* not fit in int.  The accumulation never leaves 0..IntMax.
RECURSIVE AtoiAcc(_, _)
AtoiAcc(str, k) ==
  IF k = 0 THEN 0
  ELSE LET hi == AtoiAcc(str, k - 1)
           d == str[k] - 48
       IN IF hi < 0 THEN -1
          ELSE IF hi > (IntMax - d) \div 10 THEN -1
          ELSE hi * 10 + d

Atoi(str) ==
  LET v == AtoiAcc(str, Len(str))
  IN [ok |-> v >= 0, n |-> IF v >= 0 THEN v ELSE 0]

(***************************************************************************)
(* The 255 continuation loop of the comment branch,                        *)
(*   for ; i < len(segs); i++ { size += int(segs[i]); if segs[i] < 255 {break} } *)
(* LaceEnd is i after the loop, LaceSize is size after the loop.           *)
(***************************************************************************)
\* Mutant of LaceEnd: an open run leaves the index on the last entry.
LaceEndInside(segs, i) ==
  LET stop == {j \in i..(Len(segs) - 1) : segs[j + 1] < LaceMax}
  IN IF stop = {} THEN Len(segs) - 1 ELSE Min(stop)

LaceEnd(segs, i) ==
  LET stop == {j \in i..(Len(segs) - 1) : segs[j + 1] < LaceMax}
  IN IF stop = {} THEN Len(segs) ELSE Min(stop)

RECURSIVE SumSegs(_, _, _)
SumSegs(segs, from, to) ==
  IF from > to THEN 0 ELSE segs[from + 1] + SumSegs(segs, from + 1, to)

\* Mutant of LaceSize: the continuation entries are forgotten.
LaceSizeFirst(segs, i) == segs[i + 1]

LaceSize(segs, i) ==
  LET e == LaceEnd(segs, i)
  IN SumSegs(segs, i, IF e < Len(segs) THEN e ELSE Len(segs) - 1)

(***************************************************************************)
(* Inputs: streams built from pages of packets, cut at any length.         *)
(***************************************************************************)
PacketBytes(name) ==
  CASE name = "id"   -> <<1>> \o Vorb \o <<105, 115>>
    [] name = "x6"   -> <<7, 7, 7, 7, 7, 7>>
    [] name = "x3"   -> <<7, 7, 7>>
    [] name = "t3"   -> <<3, 118, 111>>
    [] name = "rb"   -> <<114, 98>>
    [] name = "cS"   -> <<3>> \o Vorb \o loopStartRe \o <<48, 48, 52, 50>>
    [] name = "cL"   -> <<3>> \o Vorb \o <<9, 0>> \o loopLengthRe \o <<57, 1>>
    [] name = "cBig" -> <<3>> \o Vorb \o loopStartRe \o Fill(20, 57)
    [] name = "c255" -> <<3>> \o Vorb \o loopLengthRe \o <<57>> \o Fill(227, 32)
                            \o loopStartRe \o <<55>>
    [] name = "c256" -> <<3>> \o Vorb \o Fill(228, 32) \o loopStartRe \o <<55>>
                            \o loopLengthRe \o <<57>>
    [] name = "c510" -> <<3>> \o Vorb \o Fill(494, 32) \o loopStartRe \o <<55>>
    \* "loopstart=5;LOOPSTART=;LOOPSTART=12;LOOPSTART=34"
    \* "LOOPLENGTH=6;LOOPLENGTH=78"
    [] name = "cRep" -> <<3>> \o Vorb
                            \o <<108, 111, 111, 112, 115, 116, 97, 114, 116, 61, 53, 59>>
                            \o loopStartRe \o <<59>>
                            \o loopStartRe \o <<49, 50, 59>>
                            \o loopStartRe \o <<51, 52>>
                            \o loopLengthRe \o <<54, 59>>
                            \o loopLengthRe \o <<55, 56>>
    \* 510 bytes carried by the entries 255, 255 with no entry < 255 after
    \* them: the packet would go on in the next page.
    [] name = "cOpen" -> <<3>> \o Vorb \o Fill(494, 32) \o loopStartRe \o <<55>>

\* The 255 lacing of a packet of n bytes.
RECURSIVE Lace(_)
Lace(n) == IF n < LaceMax THEN <<n>> ELSE <<LaceMax>> \o Lace(n - LaceMax)

RECURSIVE Concat(_)
Concat(ss) == IF ss = <<>> THEN <<>> ELSE Head(ss) \o Concat(Tail(ss))

\* The packets whose lacing is left open at the end of the table.
Continued == {"cOpen"}

PageTable(page) ==
  Concat([k \in 1..Len(page) |->
            IF page[k] \in Continued
              THEN Fill(Len(PacketBytes(page[k])) \div LaceMax, LaceMax)
            ELSE Lace(Len(PacketBytes(page[k])))])

PageBytes(page) ==
  LET table == PageTable(page)
  IN OggS \o Fill(PageHeaderLen - CaptureLen, 0) \o <<Len(table)>> \o table
        \o Concat([k \in 1..Len(page) |-> PacketBytes(page[k])])

StreamBytes(pages) == Concat([k \in 1..Len(pages) |-> PageBytes(pages[k])])

\* Pages of short packets, and pages whose comment packet is laced over
\* several table entries.
Pages ==
  { <<>>, <<"id">>, <<"x6">>, <<"cS">>, <<"cL", "x3">>, <<"t3", "rb">>,
    <<"cBig">>, <<"cRep">> }

LacedPages == { <<"c255">>, <<"c256", "id">>, <<"c510">> }

\* A page whose table ends inside the 255 run of its comment packet.
OpenPages == { <<"id", "cOpen">> }

\* A stream ends with nothing, or with 4 bytes that are no capture pattern.
Tails == { <<>>, <<79, 103, 103, 88>> }

\* A page that holds a foreign packet, a Vorbis header of another type and
\* a comment packet.
MixedPages == { <<"x6", "id", "cS">> }

\* Up to MaxPages pages of short packets; a laced page comes alone or, as
\* in a Vorbis stream, right after the identification page; an open page
\* or a mixed page comes alone or before a comment page.
Layouts ==
  UNION { [1..n -> Pages] : n \in 0..MaxPages }
    \cup { <<p>> : p \in LacedPages }
    \cup { << <<"id">>, p >> : p \in LacedPages }
    \cup { <<p>> : p \in OpenPages }
    \cup { << p, <<"cS">> >> : p \in OpenPages }
    \cup { <<p>> : p \in MixedPages }
    \cup { << p, <<"cS">> >> : p \in MixedPages }

\* The cut falls in the last component (the tail, or the last page): a cut
\* further left is a cut of a shorter layout.
Sources(pages, tail) ==
  LET whole == StreamBytes(pages) \o tail
      kept == IF tail # <<>> THEN Len(whole) - Len(tail)
              ELSE IF pages = <<>> THEN 0
              ELSE Len(whole) - Len(PageBytes(pages[Len(pages)]))
      from == IF kept = Len(whole) THEN kept ELSE kept + 1
  IN { SubSeq(whole, 1, n) : n \in from..Len(whole) }

(***************************************************************************)
(* Initial state: both calls at the top of their page loop.  pos is the    *)
(* number of bytes the call's reader has delivered, page the value of pos  *)
(* when the current page's capture pattern was read, nStart and nLength    *)
(* the number of times loopStart = n and loopLength = n were executed.     *)
(***************************************************************************)
EarlyInit ==
  [pc |-> "capture", pos |-> 0, page |-> 0, nseg |-> 0, segs |-> <<>>, i |-> 0,
   headerType |-> 0, b |-> <<>>, headerFound |-> FALSE, meta |-> <<>>,
   loopStart |-> 0, loopLength |-> 0, err |-> Nil, nStart |-> 0, nLength |-> 0]

LatchInit ==
  [pc |-> "capture", r |-> [pos |-> 0, err |-> Nil], page |-> 0, nseg |-> 0,
   segs |-> <<>>, i |-> 0, headerType |-> 0, b |-> <<>>, headerFound |-> FALSE,
   meta |-> <<>>, loopStart |-> 0, loopLength |-> 0, err |-> Nil,
   nStart |-> 0, nLength |-> 0]

Init ==
  /\ \E pages \in Layouts, tail \in Tails :
       /\ input = [pages |-> pages, tail |-> tail]
       /\ src \in Sources(pages, tail)
  /\ early = EarlyInit
  /\ latch = LatchInit

(***************************************************************************)
(* Shared pieces of the two versions.                                      *)
(***************************************************************************)
\* Mutant of IsCapture: only the first three bytes are compared.
IsCaptureLoose(buf) == SubSeq(buf, 1, 3) = SubSeq(OggS, 1, 3)

\* Mutant of IsCapture: the zero-filled buffer of a latched reader passes.
IsCaptureOrZero(buf) == buf = OggS \/ buf = <<0, 0, 0, 0>>

\* string(b) != "OggS" breaks the page loop.
IsCapture(buf) == buf = OggS

\* Mutant of PageEndPc: the page loop never breaks on headerFound.
PageEndPcAlways(headerFound) == "capture"

\* if !headerFound { break }: where the page loop goes after a page.
PageEndPc(headerFound) == IF headerFound THEN "capture" ELSE "returned"

\* The i++ of the segment loop and its test i < len(segs).
LoopPc(segs, i) == IF i < Len(segs) THEN "htype" ELSE "pageend"

\* Mutant of Classify: a "vorb" packet of another type than 3 is skipped
\* like a foreign one, headerFound left as it is.
ClassifyCommentOnly(headerType, b) ==
  IF b = Vorb /\ headerType = CommentType THEN "comment" ELSE "skipseg"

\* The branch taken after the 5 classification bytes.
Classify(headerType, b) ==
  IF b # Vorb THEN "skipseg"
  ELSE IF headerType # CommentType THEN "skipvorb"
  ELSE "comment"

\* Mutant of ExtractTags: a payload without the tag resets the value to 0.
ExtractTagsReset(meta, ls, ll) ==
  LET m1 == FindSubmatch(loopStartRe, meta)
      m2 == FindSubmatch(loopLengthRe, meta)
  IN [panic |-> (m1 # <<>> /\ ~Atoi(m1).ok) \/ (m2 # <<>> /\ ~Atoi(m2).ok),
      loopStart |-> IF m1 # <<>> THEN Atoi(m1).n ELSE 0,
      loopLength |-> IF m2 # <<>> THEN Atoi(m2).n ELSE 0,
      setStart |-> m1 # <<>>, setLength |-> m2 # <<>>]

\* The tag search of the comment branch on the named results (ls, ll): a
\* matched digit run that strconv.Atoi rejects panics, the second tag not
\* being looked at any more.  setStart and setLength tell whether the
\* assignments loopStart = n and loopLength = n were executed.
ExtractTags(meta, ls, ll) ==
  LET m1 == FindSubmatch(loopStartRe, meta)
      m2 == FindSubmatch(loopLengthRe, meta)
      s == IF m1 # <<>> /\ Atoi(m1).ok THEN Atoi(m1).n ELSE ls
  IN IF m1 # <<>> /\ ~Atoi(m1).ok
       THEN [panic |-> TRUE, loopStart |-> ls, loopLength |-> ll,
             setStart |-> FALSE, setLength |-> FALSE]
     ELSE IF m2 # <<>> /\ ~Atoi(m2).ok
       THEN [panic |-> TRUE, loopStart |-> s, loopLength |-> ll,
             setStart |-> m1 # <<>>, setLength |-> FALSE]
     ELSE [panic |-> FALSE, loopStart |-> s,
           loopLength |-> IF m2 # <<>> THEN Atoi(m2).n ELSE ll,
           setStart |-> m1 # <<>>, setLength |-> m2 # <<>>]

(***************************************************************************)
(* src/oggloop.go: skip, readByte and Read with early returns.             *)
(***************************************************************************)
\* Mutant of skip: one byte of the skipped region is left in the source.
skipShort(s, pos, n) ==
  IF n = 0 THEN [n |-> 0, err |-> Nil]
  ELSE IF n < 0 THEN [n |-> 0, err |-> ErrNegative]
  ELSE LET r == ReadFull(s, pos, n - 1) IN [n |-> r.n, err |-> r.err]

skip(s, pos, n) ==
  IF n = 0 THEN [n |-> 0, err |-> Nil]
  ELSE IF n < 0 THEN [n |-> 0, err |-> ErrNegative]
  ELSE LET r == ReadFull(s, pos, n) IN [n |-> r.n, err |-> r.err]

readByte(s, pos) ==
  LET r == ReadFull(s, pos, 1)
  IN [n |-> r.n, b |-> IF r.err = Nil THEN r.buf[1] ELSE 0, err |-> r.err]

\* return 0, 0, err after n more bytes were delivered.
EarlyFail(n, e) ==
  [early EXCEPT !.pc = "returned", !.pos = @ + n,
                !.loopStart = 0, !.loopLength = 0, !.err = e]

Read_Capture ==
  /\ early.pc = "capture"
  /\ LET r == ReadFull(src, early.pos, CaptureLen)
     IN early' = IF r.err # Nil THEN EarlyFail(r.n, r.err)
                 ELSE IF ~IsCapture(r.buf)
                   THEN [early EXCEPT !.pc = "returned", !.pos = @ + r.n]
                 ELSE [early EXCEPT !.pc = "skiphdr", !.pos = @ + r.n,
                                    !.page = early.pos]
  /\ UNCHANGED <<input, src, latch>>

Read_SkipHeader ==
  /\ early.pc = "skiphdr"
  /\ LET r == skip(src, early.pos, PageHeaderLen - CaptureLen)
     IN early' = IF r.err # Nil THEN EarlyFail(r.n, r.err)
                 ELSE [early EXCEPT !.pc = "nseg", !.pos = @ + r.n,
                                    !.headerFound = FALSE]
  /\ UNCHANGED <<input, src, latch>>

Read_Nseg ==
  /\ early.pc = "nseg"
  /\ LET r == readByte(src, early.pos)
     IN early' = IF r.err # Nil THEN EarlyFail(r.n, r.err)
                 ELSE [early EXCEPT !.pc = "segs", !.pos = @ + r.n, !.nseg = r.b]
  /\ UNCHANGED <<input, src, latch>>

Read_Segs ==
  /\ early.pc = "segs"
  /\ LET r == ReadFull(src, early.pos, early.nseg)
     IN early' = IF r.err # Nil THEN EarlyFail(r.n, r.err)
                 ELSE [early EXCEPT !.pc = LoopPc(r.buf, 0), !.pos = @ + r.n,
                                    !.segs = r.buf, !.i = 0]
  /\ UNCHANGED <<input, src, latch>>

Read_HeaderType ==
  /\ early.pc = "htype"
  /\ LET r == readByte(src, early.pos)
     IN early' = IF r.err # Nil THEN EarlyFail(r.n, r.err)
                 ELSE [early EXCEPT !.pc = "sig", !.pos = @ + r.n,
                                    !.headerType = r.b]
  /\ UNCHANGED <<input, src, latch>>

Read_Signature ==
  /\ early.pc = "sig"
  /\ LET r == ReadFull(src, early.pos, 4)
     IN early' = IF r.err # Nil THEN EarlyFail(r.n, r.err)
                 ELSE [early EXCEPT !.pc = Classify(early.headerType, r.buf),
                                    !.pos = @ + r.n, !.b = r.buf]
  /\ UNCHANGED <<input, src, latch>>

Read_SkipSegment ==
  /\ early.pc = "skipseg"
  /\ LET r == skip(src, early.pos, early.segs[early.i + 1] - ClassifyLen)
     IN early' = IF r.err # Nil THEN EarlyFail(r.n, r.err)
                 ELSE [early EXCEPT !.pc = LoopPc(early.segs, early.i + 1),
                                    !.pos = @ + r.n, !.i = @ + 1]
  /\ UNCHANGED <<input, src, latch>>

Read_SkipVorbis ==
  /\ early.pc = "skipvorb"
  /\ LET r == skip(src, early.pos, early.segs[early.i + 1] - ClassifyLen)
     IN early' = IF r.err # Nil THEN EarlyFail(r.n, r.err)
                 ELSE [early EXCEPT !.pc = LoopPc(early.segs, early.i + 1),
                                    !.pos = @ + r.n, !.i = @ + 1,
                                    !.headerFound = TRUE]
  /\ UNCHANGED <<input, src, latch>>

\* make([]byte, size) panics on a negative size.
Read_Comment ==
  /\ early.pc = "comment"
  /\ LET e == LaceEnd(early.segs, early.i)
         size == LaceSize(early.segs, early.i) - ClassifyLen
         r == ReadFull(src, early.pos, size)
         t == ExtractTags(r.buf, early.loopStart, early.loopLength)
     IN early' =
          IF size < 0 THEN [early EXCEPT !.pc = "panic", !.i = e]
          ELSE IF r.err # Nil THEN [EarlyFail(r.n, r.err) EXCEPT !.i = e]
          ELSE IF t.panic
            THEN [early EXCEPT !.pc = "panic", !.pos = @ + r.n, !.i = e,
                               !.meta = r.buf, !.loopStart = t.loopStart,
                               !.nStart = @ + (IF t.setStart THEN 1 ELSE 0)]
          ELSE [early EXCEPT !.pc = LoopPc(early.segs, e + 1), !.pos = @ + r.n,
                             !.i = e + 1, !.meta = r.buf,
                             !.loopStart = t.loopStart,
                             !.loopLength = t.loopLength,
                             !.nStart = @ + (IF t.setStart THEN 1 ELSE 0),
                             !.nLength = @ + (IF t.setLength THEN 1 ELSE 0),
                             !.headerFound = TRUE]
  /\ UNCHANGED <<input, src, latch>>

Read_PageEnd ==
  /\ early.pc = "pageend"
  /\ early' = [early EXCEPT !.pc = PageEndPc(early.headerFound)]
  /\ UNCHANGED <<input, src, latch>>

EarlyDone == early.pc \in {"returned", "panic"}

(***************************************************************************)
(* src/unnamed/part_000: errReader and Read with the latched error.  A     *)
(* reader rd is [pos, err]: the bytes delivered by rd.r and the latch.     *)
(* ReadBytes makes its buffer first: make([]byte, n) panics on n < 0       *)
(* before the n < 0 test is reached.                                       *)
(***************************************************************************)
ReadBytes(s, rd, n) ==
  IF n < 0 THEN [panic |-> TRUE, buf |-> <<>>, rd |-> rd]
  ELSE IF rd.err # Nil THEN [panic |-> FALSE, buf |-> Fill(n, 0), rd |-> rd]
  ELSE IF n = 0 THEN [panic |-> FALSE, buf |-> <<>>, rd |-> rd]
  ELSE LET r == ReadFull(s, rd.pos, n)
       IN [panic |-> FALSE, buf |-> r.buf,
           rd |-> [pos |-> rd.pos + r.n, err |-> r.err]]

ReadByte(s, rd) ==
  LET r == ReadBytes(s, rd, 1) IN [b |-> r.buf[1], rd |-> r.rd]

\* Mutant of Skip: a negative length is passed over without an error.
SkipLenient(s, rd, n) ==
  IF rd.err # Nil THEN rd
  ELSE IF n <= 0 THEN rd
  ELSE ReadBytes(s, rd, n).rd

Skip(s, rd, n) ==
  IF rd.err # Nil THEN rd
  ELSE IF n = 0 THEN rd
  ELSE IF n < 0 THEN [rd EXCEPT !.err = ErrNegative]
  ELSE ReadBytes(s, rd, n).rd

\* The page loop of part_000 starts when the call of oggloop.go has ended.
ReadE_Capture ==
  /\ EarlyDone
  /\ latch.pc = "capture"
  /\ LET r == ReadBytes(src, latch.r, CaptureLen)
     IN latch' = IF ~IsCapture(r.buf)
                   THEN [latch EXCEPT !.pc = "returned", !.r = r.rd,
                                      !.err = r.rd.err]
                 ELSE [latch EXCEPT !.pc = "skiphdr", !.r = r.rd,
                                    !.page = latch.r.pos]
  /\ UNCHANGED <<input, src, early>>

ReadE_SkipHeader ==
  /\ latch.pc = "skiphdr"
  /\ latch' = [latch EXCEPT !.pc = "nseg",
                 !.r = Skip(src, latch.r, PageHeaderLen - CaptureLen),
                 !.headerFound = FALSE]
  /\ UNCHANGED <<input, src, early>>

ReadE_Nseg ==
  /\ latch.pc = "nseg"
  /\ LET r == ReadByte(src, latch.r)
     IN latch' = [latch EXCEPT !.pc = "segs", !.r = r.rd, !.nseg = r.b]
  /\ UNCHANGED <<input, src, early>>

ReadE_Segs ==
  /\ latch.pc = "segs"
  /\ LET r == ReadBytes(src, latch.r, latch.nseg)
     IN latch' = [latch EXCEPT !.pc = LoopPc(r.buf, 0), !.r = r.rd,
                               !.segs = r.buf, !.i = 0]
  /\ UNCHANGED <<input, src, early>>

ReadE_HeaderType ==
  /\ latch.pc = "htype"
  /\ LET r == ReadByte(src, latch.r)
     IN latch' = [latch EXCEPT !.pc = "sig", !.r = r.rd, !.headerType = r.b]
  /\ UNCHANGED <<input, src, early>>

ReadE_Signature ==
  /\ latch.pc = "sig"
  /\ LET r == ReadBytes(src, latch.r, 4)
     IN latch' = [latch EXCEPT !.pc = Classify(latch.headerType, r.buf),
                               !.r = r.rd, !.b = r.buf]
  /\ UNCHANGED <<input, src, early>>

ReadE_SkipSegment ==
  /\ latch.pc = "skipseg"
  /\ latch' = [latch EXCEPT !.pc = LoopPc(latch.segs, latch.i + 1),
                 !.r = Skip(src, latch.r, latch.segs[latch.i + 1] - ClassifyLen),
                 !.i = @ + 1]
  /\ UNCHANGED <<input, src, early>>

ReadE_SkipVorbis ==
  /\ latch.pc = "skipvorb"
  /\ latch' = [latch EXCEPT !.pc = LoopPc(latch.segs, latch.i + 1),
                 !.r = Skip(src, latch.r, latch.segs[latch.i + 1] - ClassifyLen),
                 !.i = @ + 1, !.headerFound = TRUE]
  /\ UNCHANGED <<input, src, early>>

\* The tag search runs on the buffer ReadBytes returned, also when the read
\* fell short and the error was latched.
ReadE_Comment ==
  /\ latch.pc = "comment"
  /\ LET e == LaceEnd(latch.segs, latch.i)
         size == LaceSize(latch.segs, latch.i) - ClassifyLen
         r == ReadBytes(src, latch.r, size)
         t == ExtractTags(r.buf, latch.loopStart, latch.loopLength)
     IN latch' =
          IF r.panic THEN [latch EXCEPT !.pc = "panic", !.i = e]
          ELSE IF t.panic
            THEN [latch EXCEPT !.pc = "panic", !.r = r.rd, !.i = e,
                               !.meta = r.buf, !.loopStart = t.loopStart,
                               !.nStart = @ + (IF t.setStart THEN 1 ELSE 0)]
          ELSE [latch EXCEPT !.pc = LoopPc(latch.segs, e + 1), !.r = r.rd,
                             !.i = e + 1, !.meta = r.buf,
                             !.loopStart = t.loopStart,
                             !.loopLength = t.loopLength,
                             !.nStart = @ + (IF t.setStart THEN 1 ELSE 0),
                             !.nLength = @ + (IF t.setLength THEN 1 ELSE 0),
                             !.headerFound = TRUE]
  /\ UNCHANGED <<input, src, early>>

\* if !headerFound { break }, and the deferred err = r.err of the return.
ReadE_PageEnd ==
  /\ latch.pc = "pageend"
  /\ latch' = IF PageEndPc(latch.headerFound) = "returned"
                THEN [latch EXCEPT !.pc = "returned", !.err = latch.r.err]
              ELSE [latch EXCEPT !.pc = PageEndPc(latch.headerFound)]
  /\ UNCHANGED <<input, src, early>>

LatchDone == latch.pc \in {"returned", "panic"}

Next ==
  \/ Read_Capture
  \/ Read_SkipHeader
  \/ Read_Nseg
  \/ Read_Segs
  \/ Read_HeaderType
  \/ Read_Signature
  \/ Read_SkipSegment
  \/ Read_SkipVorbis
  \/ Read_Comment
  \/ Read_PageEnd
  \/ ReadE_Capture
  \/ ReadE_SkipHeader
  \/ ReadE_Nseg
  \/ ReadE_Segs
  \/ ReadE_HeaderType
  \/ ReadE_Signature
  \/ ReadE_SkipSegment
  \/ ReadE_SkipVorbis
  \/ ReadE_Comment
  \/ ReadE_PageEnd

Spec == Init /\ [][Next]_vars

\* Read is sequential code: a call that has not ended takes its next step.
\* This is WF_vars(Next) with ENABLED <<Next>>_vars written out: a step is
\* possible exactly while one of the two calls has not ended.
Running == ~(EarlyDone /\ LatchDone)

FairSpec == Spec /\ ([]<>~Running \/ []<><<Next>>_vars)

(***************************************************************************)
(* What the input holds, read off the layout and not off the scan.         *)
(***************************************************************************)
\* The stream is the whole layout: nothing cut off, nothing appended.
WellFormed ==
  input.tail = <<>> /\ Len(src) = Len(StreamBytes(input.pages))

\* A packet that is a Vorbis comment header: type 3, signature "vorb".
IsComment(name) ==
  LET p == PacketBytes(name)
  IN Len(p) >= ClassifyLen /\ p[1] = CommentType /\ SubSeq(p, 2, 5) = Vorb

Payload(name) == SubSeq(PacketBytes(name), ClassifyLen + 1, Len(PacketBytes(name)))

PacketNames(pages) == Concat(pages)

CommentsOf(pages) ==
  {k \in DOMAIN PacketNames(pages) : IsComment(PacketNames(pages)[k])}

\* The tags of the only comment packet of the layout.
TagsOfOnlyComment ==
  LET k == CHOOSE k \in CommentsOf(input.pages) : TRUE
  IN ExtractTags(Payload(PacketNames(input.pages)[k]), 0, 0)

\* The two calls with the same fields: pos, and latched, the error held by
\* the reader (oggloop.go has returned when a read has failed).
EarlyView == early @@ [latched |-> Nil]

LatchView == [latch EXCEPT !.r = 0] @@ [pos |-> latch.r.pos, latched |-> latch.r.err]

\* The length the step at rec.pc asks of the reader.
Request(rec) ==
  CASE rec.pc = "capture" -> CaptureLen
    [] rec.pc = "skiphdr" -> PageHeaderLen - CaptureLen
    [] rec.pc \in {"nseg", "htype"} -> 1
    [] rec.pc = "segs" -> rec.nseg
    [] rec.pc = "sig" -> 4
    [] rec.pc \in {"skipseg", "skipvorb"} -> rec.segs[rec.i + 1] - ClassifyLen
    [] rec.pc = "comment" -> LaceSize(rec.segs, rec.i) - ClassifyLen
    [] OTHER -> 0

\* The source ends before the request of the step at rec.pc is satisfied.
FallsShort(rec) == Request(rec) > Len(src) - rec.pos

(***************************************************************************)
(* C1.  For every well-formed Ogg stream that has one comment packet, Read *)
(* returns no error and the values of the LOOPSTART and LOOPLENGTH tags of *)
(* the comment payload, 0 for an absent tag.  (Stated for the streams      *)
(* whose tag values fit an int.)  Refuted by the code.                     *)
(***************************************************************************)
C1_Returns(rec) ==
  (rec.pc \in {"returned", "panic"} /\ WellFormed
     /\ Cardinality(CommentsOf(input.pages)) = 1 /\ ~TagsOfOnlyComment.panic)
  => /\ rec.pc = "returned"
     /\ rec.err = Nil
     /\ rec.loopStart = TagsOfOnlyComment.loopStart
     /\ rec.loopLength = TagsOfOnlyComment.loopLength

C1_WellFormedStreamYieldsTags == C1_Returns(EarlyView) /\ C1_Returns(LatchView)

(***************************************************************************)
(* C2.  When the capture pattern does not match on the first read, be the *)
(* source empty (0 bytes available) or a non-Ogg source (4 bytes that are  *)
(* not "OggS"), Read returns (0, 0) with a nil error.  Refuted by the      *)
(* code.                                                                   *)
(***************************************************************************)
NoCapture ==
  src = <<>> \/ (Len(src) >= CaptureLen /\ SubSeq(src, 1, CaptureLen) # OggS)

C2_Returns(rec) ==
  (rec.pc \in {"returned", "panic"} /\ NoCapture)
  => /\ rec.pc = "returned"
     /\ rec.err = Nil
     /\ rec.loopStart = 0
     /\ rec.loopLength = 0

C2_NoCaptureIsNilZero == C2_Returns(EarlyView) /\ C2_Returns(LatchView)

(***************************************************************************)
(* C3.  Whenever the source ends before a requested read is satisfied,     *)
(* Read returns a non-nil error: the early-return version in that step,    *)
(* the latched version by latching the error, never panicking afterwards   *)
(* and returning the latch.  Refuted by the code.                          *)
(***************************************************************************)
C3_ShortReadIsError ==
  [][ /\ (early' # early /\ FallsShort(early))
           => (early'.pc = "returned" /\ early'.err # Nil)
      /\ (latch' # latch /\ latch.r.err = Nil /\ FallsShort(LatchView))
           => (latch'.pc # "panic" /\ latch'.r.err # Nil)
      /\ (latch' # latch /\ latch.r.err # Nil)
           => (latch'.pc # "panic" /\ latch'.r.err = latch.r.err)
      /\ latch'.pc = "returned" => latch'.err = latch'.r.err ]_vars

(***************************************************************************)
(* C4.  Whenever Read returns a non-nil error, the returned loopStart and  *)
(* loopLength are both 0.  Refuted by the code.                            *)
(***************************************************************************)
C4_Returns(rec) ==
  (rec.pc = "returned" /\ rec.err # Nil) => (rec.loopStart = 0 /\ rec.loopLength = 0)

C4_ErrorCarriesNoValues == C4_Returns(EarlyView) /\ C4_Returns(LatchView)

(***************************************************************************)
(* C5.  Whenever a computed skip or read length is negative, Read ends by  *)
(* returning a non-nil error and never crashes.  Refuted by the code.      *)
(***************************************************************************)
NegativeLength(rec) ==
  rec.pc \in {"skipseg", "skipvorb", "comment"} /\ Request(rec) < 0

C5_NegativeLengthIsError ==
  [][ /\ (early' # early /\ NegativeLength(early))
           => (early'.pc = "returned" /\ early'.err # Nil)
      /\ (latch' # latch /\ latch.r.err = Nil /\ NegativeLength(LatchView))
           => (latch'.pc # "panic" /\ latch'.r.err # Nil) ]_vars

(***************************************************************************)
(* Pages read off the source bytes and the layout.                         *)
(***************************************************************************)
\* Every table entry is a whole packet of at least the 5 classification
\* bytes: no continuation, no short segment.
PlainTable(segs) ==
  \A j \in 1..Len(segs) : segs[j] >= ClassifyLen /\ segs[j] < LaceMax

\* The signature bytes of segment j (0-based) of the page at rec.page, at
\* the place the table gives them.
SigAt(rec, j) ==
  LET at == rec.page + PageHeaderLen + 1 + Len(rec.segs)
              + (IF j = 0 THEN 0 ELSE SumSegs(rec.segs, 0, j - 1))
  IN SubSeq(src, at + 2, at + ClassifyLen)

NoVorb(rec) == \A j \in 0..(Len(rec.segs) - 1) : SigAt(rec, j) # Vorb

\* A page of the layout none of whose packets carries "vorb".
OtherPage(page) ==
  \A k \in DOMAIN page :
     LET p == PacketBytes(page[k])
     IN Len(p) >= ClassifyLen /\ Len(p) < LaceMax /\ SubSeq(p, 2, 5) # Vorb

\* A page of the layout of Vorbis header packets whose tags fit an int.
HeaderPage(page) ==
  /\ page # <<>>
  /\ \A k \in DOMAIN page :
        LET p == PacketBytes(page[k])
        IN /\ Len(p) >= ClassifyLen /\ Len(p) < LaceMax /\ SubSeq(p, 2, 5) = Vorb
           /\ IsComment(page[k]) => ~ExtractTags(Payload(page[k]), 0, 0).panic

\* The tags of the comment packets among names[1..k], taken in order.
RECURSIVE TagsUpTo(_, _)
TagsUpTo(names, k) ==
  IF k = 0 THEN [panic |-> FALSE, loopStart |-> 0, loopLength |-> 0]
  ELSE LET t == TagsUpTo(names, k - 1)
       IN IF IsComment(names[k])
            THEN ExtractTags(Payload(names[k]), t.loopStart, t.loopLength)
          ELSE t

TagsOfPages(pages) == TagsUpTo(PacketNames(pages), Len(PacketNames(pages)))

(***************************************************************************)
(* C6 as claimed: after a page in which every segment fails the "vorb"     *)
(* signature check, the loop values are unchanged and Read goes on to read *)
(* the next page.  Refuted by the code.                                    *)
(***************************************************************************)
C6_GoesOn(rec, nxt) ==
  (nxt # rec /\ rec.pc = "pageend" /\ rec.latched = Nil
     /\ rec.segs # <<>> /\ PlainTable(rec.segs) /\ NoVorb(rec))
  => /\ nxt.pc = "capture"
     /\ nxt.loopStart = rec.loopStart
     /\ nxt.loopLength = rec.loopLength

C6_NonVorbisPageIsSkipped ==
  [][C6_GoesOn(EarlyView, EarlyView') /\ C6_GoesOn(LatchView, LatchView')]_vars

(***************************************************************************)
(* C6 amended: when the first page of the stream without any "vorb"        *)
(* packet is complete in the source and only Vorbis header pages precede   *)
(* it, Read returns with a nil error right at the end of that page, with   *)
(* the loop values of the pages before it: the page changes no value, the  *)
(* next page is not read and the tags of a later comment packet are not    *)
(* returned.                                                               *)
(***************************************************************************)
C6_Stops(rec) ==
  \A k \in DOMAIN input.pages :
    (/\ rec.pc \in {"returned", "panic"}
     /\ OtherPage(input.pages[k])
     /\ \A j \in 1..(k - 1) : HeaderPage(input.pages[j])
     /\ Len(src) >= Len(StreamBytes(SubSeq(input.pages, 1, k))))
    => /\ rec.pc = "returned"
       /\ rec.err = Nil
       /\ rec.pos = Len(StreamBytes(SubSeq(input.pages, 1, k)))
       /\ rec.loopStart = TagsOfPages(SubSeq(input.pages, 1, k - 1)).loopStart
       /\ rec.loopLength = TagsOfPages(SubSeq(input.pages, 1, k - 1)).loopLength

C6_NonVorbisPageEndsScan == C6_Stops(EarlyView) /\ C6_Stops(LatchView)

\* Both calls have returned (0, 0, nil) on a page without "vorb" that is
\* followed by a comment page with LOOPSTART=0042.
C6_Witness ==
  /\ input.pages = << <<"x6">>, <<"cS">> >>
  /\ WellFormed
  /\ early.pc = "returned" /\ early.err = Nil /\ early.loopStart = 0
  /\ latch.pc = "returned" /\ latch.err = Nil /\ latch.loopStart = 0
  /\ early.pos = Len(PageBytes(<<"x6">>))

(***************************************************************************)
(* C7.  For a comment packet whose table entries are k >= 1 entries of 255 *)
(* followed by one entry e < 255, when the source holds the packet, the    *)
(* payload handed to the tag search is the 255*k + e - 5 bytes that follow *)
(* the 5 classification bytes, the tags are those of that payload, and the *)
(* segment index resumes at the entry after e.                             *)
(***************************************************************************)
LacedRun(segs, i, k) ==
  /\ i + k < Len(segs)
  /\ \A j \in 0..(k - 1) : segs[i + j + 1] = LaceMax
  /\ segs[i + k + 1] < LaceMax

C7_Reassembles(rec, nxt) ==
  \A k \in 1..Len(rec.segs) :
    LET n == IF rec.i + k < Len(rec.segs)
               THEN LaceMax * k + rec.segs[rec.i + k + 1] - ClassifyLen
             ELSE 0
    IN (/\ nxt # rec /\ rec.pc = "comment" /\ rec.latched = Nil
        /\ LacedRun(rec.segs, rec.i, k)
        /\ rec.pos + n <= Len(src)
        /\ nxt.pc # "panic")
       => /\ nxt.meta = SubSeq(src, rec.pos + 1, rec.pos + n)
          /\ Len(nxt.meta) = n
          /\ nxt.pos = rec.pos + n
          /\ nxt.i = rec.i + k + 1
          /\ nxt.loopStart
               = ExtractTags(SubSeq(src, rec.pos + 1, rec.pos + n),
                             rec.loopStart, rec.loopLength).loopStart
          /\ nxt.loopLength
               = ExtractTags(SubSeq(src, rec.pos + 1, rec.pos + n),
                             rec.loopStart, rec.loopLength).loopLength

C7_LacedCommentIsWhole ==
  [][C7_Reassembles(EarlyView, EarlyView')
       /\ C7_Reassembles(LatchView, LatchView')]_vars

\* The 510-byte comment packet (entries 255, 255, 0) has been read by both
\* calls: 505 payload bytes, the tag at their end found, the index at 3.
C7_Witness ==
  /\ Len(early.meta) = 505 /\ early.loopStart = 7 /\ early.i = 3
  /\ Len(latch.meta) = 505 /\ latch.loopStart = 7 /\ latch.i = 3
  /\ latch.r.err = Nil

(***************************************************************************)
(* C8.  At every point of a scan, the body bytes read for the current page *)
(* do not exceed the sum of the table entries reached so far: the 5-byte   *)
(* classification read of a segment never goes past the segment's declared *)
(* length.  Refuted by the code.                                           *)
(***************************************************************************)
BodyRead(rec) == rec.pos - (rec.page + PageHeaderLen + 1 + Len(rec.segs))

Reached(rec) ==
  SumSegs(rec.segs, 0, IF rec.i < Len(rec.segs) THEN rec.i ELSE Len(rec.segs) - 1)

C8_Within(rec) ==
  rec.pc \in {"htype", "sig", "skipseg", "skipvorb", "comment", "pageend"}
  => BodyRead(rec) <= Reached(rec)

C8_ReadsWithinDeclared == C8_Within(EarlyView) /\ C8_Within(LatchView)

(***************************************************************************)
(* C9.  When 4 bytes are read at a page boundary and they differ from      *)
(* "OggS", Read stops without reading any further byte and returns a nil   *)
(* error with the loop values accumulated before.                          *)
(***************************************************************************)
C9_Stops(rec, nxt) ==
  /\ (/\ nxt # rec /\ rec.pc = "capture" /\ rec.latched = Nil
      /\ rec.pos + CaptureLen <= Len(src)
      /\ SubSeq(src, rec.pos + 1, rec.pos + CaptureLen) # OggS)
     => /\ nxt.pc = "returned"
        /\ nxt.err = Nil
        /\ nxt.pos = rec.pos + CaptureLen
        /\ nxt.loopStart = rec.loopStart
        /\ nxt.loopLength = rec.loopLength
  /\ rec.pc = "returned" => nxt = rec

C9_ForeignCaptureEndsScan ==
  [][C9_Stops(EarlyView, EarlyView') /\ C9_Stops(LatchView, LatchView')]_vars

\* Both calls have returned (42, 0, nil) on the 4 foreign bytes that follow
\* a comment page.
C9_Witness ==
  /\ input.tail # <<>> /\ Len(src) = Len(StreamBytes(input.pages)) + CaptureLen
  /\ early.pc = "returned" /\ early.err = Nil /\ early.loopStart = 42
  /\ latch.pc = "returned" /\ latch.err = Nil /\ latch.loopStart = 42
  /\ early.pos = Len(src) /\ latch.r.pos = Len(src)

(***************************************************************************)
(* C10.  After the whole segment table of a page has been processed        *)
(* without error: when no segment of the page carried "vorb", Read returns *)
(* at once with a nil error and the values accumulated so far, consuming   *)
(* no further byte; when at least one segment carried "vorb" (any type     *)
(* byte), Read goes on to the capture read of the next page.  (Stated for  *)
(* the pages whose table entries are whole packets of 5 to 254 bytes.)     *)
(***************************************************************************)
C10_PageEnd(rec, nxt) ==
  (nxt # rec /\ rec.pc = "pageend" /\ rec.latched = Nil /\ PlainTable(rec.segs))
  => /\ nxt.pos = rec.pos
     /\ nxt.loopStart = rec.loopStart
     /\ nxt.loopLength = rec.loopLength
     /\ IF NoVorb(rec) THEN nxt.pc = "returned" /\ nxt.err = Nil
        ELSE nxt.pc = "capture"

C10_HeaderlessPageEndsScan ==
  [][C10_PageEnd(EarlyView, EarlyView') /\ C10_PageEnd(LatchView, LatchView')]_vars

\* oggloop.go has returned at the end of a second page without "vorb", and
\* part_000 is about to read the next capture pattern after the
\* identification page.
C10_Witness ==
  /\ early.pc = "returned" /\ early.err = Nil /\ ~early.headerFound
  /\ early.page > 0 /\ early.pos = Len(src)
  /\ latch.pc = "capture" /\ latch.headerFound /\ latch.headerType = 1
  /\ latch.r.err = Nil /\ latch.r.pos > 0

(***************************************************************************)
(* Tags read off the payload bytes.                                        *)
(***************************************************************************)
\* The places of meta where the key re, "=" included, is followed by a digit.
TagPlaces(re, meta) ==
  {p \in 1..(Len(meta) - Len(re)) :
     /\ \A k \in 1..Len(re) : meta[p + k - 1] = re[k]
     /\ IsDigit(meta[p + Len(re)])}

HasTag(re, meta) == TagPlaces(re, meta) # {}

(***************************************************************************)
(* C11 as claimed: over a scan loopStart is assigned at most once and      *)
(* loopLength at most once, also when the stream holds several comment     *)
(* packets.  Refuted by the code.                                          *)
(***************************************************************************)
C11_AssignedAtMostOnce ==
  /\ early.nStart <= 1 /\ early.nLength <= 1
  /\ latch.nStart <= 1 /\ latch.nLength <= 1

(***************************************************************************)
(* C11 amended: every step of a scan assigns loopStart at most once and    *)
(* loopLength at most once, only the step that processes a comment packet  *)
(* assigns, and it assigns a value exactly when the payload it read holds  *)
(* the tag: a value is assigned once per comment packet with the tag, so   *)
(* more than once when the stream holds several of them.                   *)
(***************************************************************************)
C11_Step(rec, nxt) ==
  /\ nxt.nStart - rec.nStart \in {0, 1}
  /\ nxt.nLength - rec.nLength \in {0, 1}
  /\ (nxt.nStart # rec.nStart \/ nxt.nLength # rec.nLength) => rec.pc = "comment"
  /\ (nxt # rec /\ rec.pc = "comment" /\ nxt.pc \in {"htype", "pageend"})
       => /\ (nxt.nStart = rec.nStart + 1) <=> HasTag(loopStartRe, nxt.meta)
          /\ (nxt.nLength = rec.nLength + 1) <=> HasTag(loopLengthRe, nxt.meta)

C11_AssignedOncePerComment ==
  [][C11_Step(EarlyView, EarlyView') /\ C11_Step(LatchView, LatchView')]_vars

\* Two comment pages with LOOPSTART=0042: both calls have assigned loopStart
\* twice and returned at the end of the source.
C11_Witness ==
  /\ input.pages = << <<"cS">>, <<"cS">> >>
  /\ early.pc = "returned" /\ early.nStart = 2 /\ early.nLength = 0
  /\ latch.pc = "returned" /\ latch.nStart = 2 /\ latch.nLength = 0
  /\ latch.loopStart = 42

(***************************************************************************)
(* C12.  For every digit run captured by LOOPSTART=([0-9]+) or             *)
(* LOOPLENGTH=([0-9]+) in a comment payload the conversion to int          *)
(* succeeds: the step that searches a payload for the tags never panics.   *)
(* Refuted by the code.                                                    *)
(***************************************************************************)
C12_Parses(rec, nxt) ==
  (nxt # rec /\ rec.pc = "comment" /\ Request(rec) >= 0) => nxt.pc # "panic"

C12_MatchedTagAlwaysParses ==
  [][C12_Parses(EarlyView, EarlyView') /\ C12_Parses(LatchView, LatchView')]_vars

(***************************************************************************)
(* C13.  When a tag key followed by "=" and at least one digit occurs in   *)
(* the payload a comment step has read, once or several times, the value   *)
(* the step gives the tag is the one of the leftmost such occurrence with  *)
(* its maximal digit run; later occurrences, and keys in another case, are *)
(* ignored.                                                                *)
(***************************************************************************)
\* The last digit of the maximal digit run that starts at d.
RunEnd(meta, d) ==
  CHOOSE e \in d..Len(meta) :
    /\ \A q \in d..e : IsDigit(meta[q])
    /\ e < Len(meta) => ~IsDigit(meta[e + 1])

\* The digit run of the leftmost place of the tag.
LeftmostRun(re, meta) ==
  LET d == Min(TagPlaces(re, meta)) + Len(re)
  IN SubSeq(meta, d, RunEnd(meta, d))

C13_Leftmost(rec, nxt) ==
  (nxt # rec /\ rec.pc = "comment" /\ nxt.pc \in {"htype", "pageend"})
  => /\ HasTag(loopStartRe, nxt.meta)
          => nxt.loopStart = Atoi(LeftmostRun(loopStartRe, nxt.meta)).n
     /\ HasTag(loopLengthRe, nxt.meta)
          => nxt.loopLength = Atoi(LeftmostRun(loopLengthRe, nxt.meta)).n

C13_LeftmostOccurrenceWins ==
  [][C13_Leftmost(EarlyView, EarlyView') /\ C13_Leftmost(LatchView, LatchView')]_vars

\* Both calls have read the payload
\*   loopstart=5;LOOPSTART=;LOOPSTART=12;LOOPSTART=34LOOPLENGTH=6;LOOPLENGTH=78
\* and hold (12, 6).
C13_Witness ==
  /\ early.meta = Payload("cRep") /\ latch.meta = Payload("cRep")
  /\ Cardinality(TagPlaces(loopStartRe, early.meta)) = 2
  /\ Cardinality(TagPlaces(loopLengthRe, early.meta)) = 2
  /\ latch.pc = "pageend"
  /\ early.loopStart = 12 /\ early.loopLength = 6
  /\ latch.loopStart = 12 /\ latch.loopLength = 6

(***************************************************************************)
(* C14.  loopStart changes only in the step that processes a comment       *)
(* packet whose payload holds a LOOPSTART match, loopLength only in the    *)
(* step that processes a comment packet whose payload holds a LOOPLENGTH   *)
(* match: page-header reads, skipped segments and a comment packet without *)
(* the tag leave the value as it is.  (Stated for the steps of the scan;   *)
(* the error return of oggloop.go gives 0, 0 and is the matter of C4.)     *)
(***************************************************************************)
ErrorReturn(rec, nxt) == rec.pc # "returned" /\ nxt.pc = "returned" /\ nxt.err # Nil

C14_Frame(rec, nxt) ==
  (nxt # rec /\ ~ErrorReturn(rec, nxt))
  => /\ nxt.loopStart # rec.loopStart
          => (rec.pc = "comment" /\ HasTag(loopStartRe, nxt.meta))
     /\ nxt.loopLength # rec.loopLength
          => (rec.pc = "comment" /\ HasTag(loopLengthRe, nxt.meta))
     /\ (rec.pc = "comment" /\ nxt.pc # "panic" /\ ~HasTag(loopStartRe, nxt.meta))
          => nxt.loopStart = rec.loopStart
     /\ (rec.pc = "comment" /\ nxt.pc # "panic" /\ ~HasTag(loopLengthRe, nxt.meta))
          => nxt.loopLength = rec.loopLength

OpenRun(segs, i) ==
  i < Len(segs) /\ \A j \in i..(Len(segs) - 1) : segs[j + 1] = LaceMax

C15_Open(rec, nxt) ==
  LET n == SumSegs(rec.segs, rec.i, Len(rec.segs) - 1) - ClassifyLen
  IN (/\ nxt # rec /\ rec.pc = "comment" /\ rec.latched = Nil
      /\ OpenRun(rec.segs, rec.i)
      /\ rec.pos + n <= Len(src)
      /\ nxt.pc # "panic")
     => /\ Len(nxt.meta) = n
        /\ nxt.meta = SubSeq(src, rec.pos + 1, rec.pos + n)
        /\ nxt.pos = rec.pos + n
        /\ nxt.i = Len(rec.segs) + 1
        /\ nxt.pc = "pageend"
        /\ nxt.headerFound

C15_Goes(rec, nxt) ==
  (nxt # rec /\ rec.pc = "pageend" /\ rec.headerFound)
  => (nxt.pc = "capture" /\ nxt.pos = rec.pos /\ nxt.page = rec.page)

C15_InTable(rec) ==
  rec.pc \in {"htype", "sig", "skipseg", "skipvorb", "comment"} => rec.i < Len(rec.segs)

C15_OpenRunEndsAtTableEnd ==
  [][ /\ C15_Open(EarlyView, EarlyView') /\ C15_Open(LatchView, LatchView')
      /\ C15_Goes(EarlyView, EarlyView') /\ C15_Goes(LatchView, LatchView')
      /\ C15_InTable(EarlyView') /\ C15_InTable(LatchView') ]_vars

\* The page with the table 7, 255, 255 is followed by a comment page.
\* oggloop.go has read that page as a page of its own (two assignments of
\* loopStart); part_000 has read the 505 payload bytes of the open packet
\* and is about to read the capture pattern right after them.
C15_Witness ==
  /\ input.pages = << <<"id", "cOpen">>, <<"cS">> >>
  /\ early.pc = "returned" /\ early.nStart = 2
  /\ latch.pc = "capture" /\ latch.segs = <<7, LaceMax, LaceMax>> /\ latch.i = 4
  /\ Len(latch.meta) = 2 * LaceMax - ClassifyLen /\ latch.loopStart = 7
  /\ latch.r.err = Nil /\ latch.r.pos = Len(PageBytes(<<"id", "cOpen">>))
  /\ SubSeq(src, latch.r.pos + 1, latch.r.pos + CaptureLen) = OggS

(***************************************************************************)
(* C16.  In part_000, once the reader has latched an error, every later    *)
(* call on it consumes no byte and leaves the error as it is, the error    *)
(* Read returns is the latched one, and no loop value is assigned once the *)
(* error is latched: neither in the step whose read latched it nor in a    *)
(* later one.  Refuted by the code.                                        *)
(***************************************************************************)
C16_LatchedReaderIsInert ==
  [][ /\ latch.r.err # Nil => latch'.r = latch.r
      /\ latch'.pc = "returned" => latch'.err = latch'.r.err
      /\ latch'.r.err # Nil
           => (latch'.nStart = latch.nStart /\ latch'.nLength = latch.nLength) ]_vars

(***************************************************************************)
(* C17.  On every input on which neither version crashes, the two calls    *)
(* agree on whether an error is returned and on the number of bytes taken  *)
(* from the source, and when no error is returned on (loopStart,           *)
(* loopLength).                                                            *)
(***************************************************************************)
C17_VersionsAgree ==
  (early.pc = "returned" /\ latch.pc = "returned")
  => /\ (early.err # Nil) <=> (latch.err # Nil)
     /\ early.pos = latch.r.pos
     /\ early.err = Nil
          => (early.loopStart = latch.loopStart /\ early.loopLength = latch.loopLength)

\* Both calls have returned 42 without error after two assignments of
\* loopStart, at the foreign tail that follows two pages.
C17_Witness ==
  /\ early.pc = "returned" /\ latch.pc = "returned"
  /\ early.err = Nil /\ latch.err = Nil
  /\ early.loopStart = 42 /\ latch.loopStart = 42
  /\ early.nStart = 2 /\ latch.nStart = 2
  /\ early.pos = Len(src) /\ input.tail # <<>>

\* Both calls have returned an error after the same number of bytes, the
\* negative skip of a 3-byte segment.
C17_WitnessError ==
  /\ early.pc = "returned" /\ latch.pc = "returned"
  /\ early.err = ErrNegative /\ latch.err = ErrNegative
  /\ early.pos = latch.r.pos

(***************************************************************************)
(* C18.  Every page processed to its end without error has taken exactly   *)
(* 4 + 22 + 1 + N + (sum of its N table entries) bytes from the source,    *)
(* whatever segments it holds, and the next 4-byte read starts there: at   *)
(* the capture pattern of the following page of the stream.                *)
(***************************************************************************)
PageSize(segs) ==
  PageHeaderLen + 1 + Len(segs)
    + (IF segs = <<>> THEN 0 ELSE SumSegs(segs, 0, Len(segs) - 1))

\* The offsets of the stream at which a page of the layout ends.
PageBounds ==
  {Len(StreamBytes(SubSeq(input.pages, 1, k))) : k \in 0..Len(input.pages)}

C18_PageDone(rec) ==
  /\ (rec.pc = "pageend" /\ rec.latched = Nil)
       => rec.pos = rec.page + PageSize(rec.segs)
  /\ (rec.pc = "capture" /\ rec.latched = Nil)
       => (rec.pos \in PageBounds
           /\ (rec.pos > 0 => rec.pos = rec.page + PageSize(rec.segs)))

C18_PageConsumesDeclaredBytes == C18_PageDone(EarlyView) /\ C18_PageDone(LatchView)

\* The page that holds a foreign packet, an identification header and a
\* comment packet is followed by a comment page.  oggloop.go has found the
\* capture pattern of the second page right after the first; part_000 is at
\* the capture read after the first page.
C18_Witness ==
  /\ input.pages = << <<"x6", "id", "cS">>, <<"cS">> >>
  /\ early.pc = "returned" /\ early.page = Len(PageBytes(<<"x6", "id", "cS">>))
  /\ early.nStart = 2
  /\ latch.pc = "capture" /\ latch.segs = <<6, 7, 19>> /\ latch.loopStart = 42
  /\ latch.r.err = Nil
  /\ latch.r.pos = Len(PageBytes(<<"x6", "id", "cS">>))

(***************************************************************************)
(* C19.  On every finite source both calls of Read eventually end, by a    *)
(* return or a crash.  An iteration of the page loop that goes on to the   *)
(* next page without error has taken at least 27 bytes from the source;    *)
(* in part_000, once an error is latched, the segment loop moves on entry  *)
(* by entry without reading and the next capture read ends the page loop,  *)
(* its zero-filled buffer failing the "OggS" check.                        *)
(***************************************************************************)
C19_Progress(rec, nxt) ==
  /\ (nxt # rec /\ rec.pc = "pageend" /\ nxt.pc = "capture" /\ rec.latched = Nil)
       => nxt.pos >= rec.page + PageHeaderLen + 1
  /\ (nxt # rec /\ rec.latched # Nil)
       => /\ nxt.pos = rec.pos
          /\ rec.pc = "capture" => nxt.pc = "returned"
          /\ rec.pc \in {"skipseg", "skipvorb"} => nxt.i = rec.i + 1
          /\ rec.pc = "sig" => nxt.pc = "skipseg"
          /\ nxt.pc # "comment"

====
